---- MODULE Spec2Model ----
(***************************************************************************)
(* Transport abstraction and reconnection subsystem of the realtime voice  *)
(* client: the reconnection controller (src/src/hooks/useReconnect.ts),    *)
(* the session coordinator (src/src/context/SessionContext.tsx) and the    *)
(* three transports (src/src/adapters).                                    *)
(*                                                                         *)
(* Execution model.  Everything runs on one event loop.  A React state     *)
(* setter called with an updater function does not run the updater: it     *)
(* appends it to the component's update queue, and the next render runs    *)
(* the queued updaters in order.  The variable "queue" is that update      *)
(* queue (the coordinator and the controller hook live in the same         *)
(* component), and the action Render is one render with its effects.       *)
(* Refs (xxxRef) are plain mutable cells, written at once.  A value a      *)
(* callback closes over (sessionConfig in handleReconnection) is carried   *)
(* in the queue entry, timer or task that holds the closure.               *)
(*                                                                         *)
(* Times are in milliseconds and advance in steps of TickMs.               *)
(***************************************************************************)
EXTENDS Integers, Sequences, FiniteSets, TLC

(***************************************************************************)
(* Configuration (src/src/config.ts, DEFAULT_CONFIG of useReconnect.ts)    *)
(***************************************************************************)
initialDelay == 1000
maxDelay == 30000
multiplier == 2
jitter == TRUE
\* jitterPercent 0.2, as a percentage
jitterPercent == 20
\* config.performance.reconnectMaxAttempts: a configured value (default 10)
maxAttempts == 2
MIN_CONNECTION_INTERVAL_MS == 2000

TRANSPORT_FALLBACK_ORDER == <<"websocket", "sse", "polling">>
TransportType == {"websocket", "sse", "polling"}

(***************************************************************************)
(* Bounds of the model                                                     *)
(***************************************************************************)
\* Math.random() is drawn from {0/RandDen, ..., (RandDen-1)/RandDen}
RandDen == 2
\* transport instances that may exist together
MaxTransports == 2
\* event-loop turns that may run before React renders
MaxTurns == 2
\* events of the user, the network and the server in one run
MaxEvents == 4
\* granularity of time
TickMs == 1000
\* The backoff computation: attempts of one sequence, and samples of
\* Math.random() (k / JitterDen)
MaxDelaySteps == 6
JitterDen == 3
\* The message console: capacity of the message list
\* (config.performance.maxMessages, 1000 by default), calls of addMessage,
\* calls of the other operations, and distinct proposal ids
maxMessages == 2
MaxAdds == 4
MaxCalls == 1
MaxProposalIds == 1
\* updates that may wait for one render
MaxPending == 2

NoConfig == "null"
Cfg == "cfg"

Min(a, b) == IF a < b THEN a ELSE b
Max(a, b) == IF a > b THEN a ELSE b
\* Math.ceil(a / b) for a >= 0, b > 0
Ceil(a, b) == (a + b - 1) \div b

\* A queued state updater: op names the updater function, s, n and m are the
\* values its closure holds.
U(op, s, n, m) == [op |-> op, s |-> s, n |-> n, m |-> m]

VARIABLES
  \* ---- useReconnect ----
  state,               \* ReconnectState, as of the last render
  reconnectTimerRef,   \* id of the timeout held by the ref, 0 = null
  countdownTimerRef,   \* the countdown interval held by the ref, delay 0 = null
  isConnectedRef,      \* isConnectedRef.current
  timers,              \* reconnect timeouts armed and neither fired nor cleared
  \* ---- SessionProvider ----
  sessionConfig,       \* as of the last render
  connectionState,     \* as of the last render
  transportRef,        \* index of the transport held by the ref, 0 = null
  isManualDisconnectRef,
  previousStatusRef,
  timeSinceLastAttempt, \* Date.now() - lastConnectionAttemptRef.current, capped
  closureTransport,    \* currentTransport as the forceReconnect that reconnect() holds saw it
  \* ---- adapters ----
  transports,          \* the transport instances created so far
  \* ---- event loop and React ----
  calls,               \* async functions suspended in an await
  queue,               \* state updaters waiting for the next render
  \* ---- history (not program state) ----
  hist,
  \* ---- configuration, fixed at start ----
  enableFallback,      \* config.transport.enableFallback
  preferred,           \* config.transport.preferred
  \* ---- the backoff computation on its own ----
  backoff,             \* a ReconnectConfig and the attempts, nextDelay of a sequence
  \* ---- the message console of SessionProvider ----
  messages,            \* as of the last render
  speakProposals,      \* as of the last render
  msgQueue,            \* updates of the two lists waiting for the next render
  msgHist,             \* history (not program state)
  \* ---- one transport adapter on its own ----
  adapter              \* the fields of the instance, with its history

(***************************************************************************)
(* The world as one record: handlers are functions from world to world, so *)
(* that a handler calling another is function composition.                 *)
(***************************************************************************)
W == [state |-> state, reconnectTimerRef |-> reconnectTimerRef,
      countdownTimerRef |-> countdownTimerRef, isConnectedRef |-> isConnectedRef,
      timers |-> timers, sessionConfig |-> sessionConfig,
      connectionState |-> connectionState, transportRef |-> transportRef,
      isManualDisconnectRef |-> isManualDisconnectRef,
      previousStatusRef |-> previousStatusRef,
      timeSinceLastAttempt |-> timeSinceLastAttempt,
      closureTransport |-> closureTransport,
      transports |-> transports, calls |-> calls, queue |-> queue, hist |-> hist]

vars == <<state, reconnectTimerRef, countdownTimerRef, isConnectedRef, timers,
          sessionConfig, connectionState, transportRef, isManualDisconnectRef,
          previousStatusRef, timeSinceLastAttempt, closureTransport, transports,
          calls, queue, hist,
          enableFallback, preferred,
          backoff, messages, speakProposals, msgQueue, msgHist, adapter>>

coreVars == <<state, reconnectTimerRef, countdownTimerRef, isConnectedRef, timers,
              sessionConfig, connectionState, transportRef, isManualDisconnectRef,
              previousStatusRef, timeSinceLastAttempt, closureTransport, transports,
              calls, queue, hist, enableFallback, preferred>>
consoleVars == <<messages, speakProposals, msgQueue, msgHist>>

Commit(w) ==
  /\ state' = w.state
  /\ reconnectTimerRef' = w.reconnectTimerRef
  /\ countdownTimerRef' = w.countdownTimerRef
  /\ isConnectedRef' = w.isConnectedRef
  /\ timers' = w.timers
  /\ sessionConfig' = w.sessionConfig
  /\ connectionState' = w.connectionState
  /\ transportRef' = w.transportRef
  /\ isManualDisconnectRef' = w.isManualDisconnectRef
  /\ previousStatusRef' = w.previousStatusRef
  /\ timeSinceLastAttempt' = w.timeSinceLastAttempt
  /\ closureTransport' = w.closureTransport
  /\ transports' = w.transports
  /\ calls' = w.calls
  /\ queue' = w.queue
  /\ hist' = w.hist
  /\ UNCHANGED <<enableFallback, preferred>>
  /\ UNCHANGED <<backoff, messages, speakProposals, msgQueue, msgHist, adapter>>

Enqueue(w, u) == [w EXCEPT !.queue = Append(@, u)]

(***************************************************************************)
(* History: hist.ev describes the last step (what it was and what it did); *)
(* the other fields remember what the claims are conditioned on.           *)
(***************************************************************************)
NoStart ==
  [status |-> "none", config |-> NoConfig, fallback |-> FALSE, manual |-> FALSE,
   previous |-> "none", since |-> 0, gap |-> 0, everOpen |-> FALSE]

\* target: the transport type the timer callback of this step passed to
\* onReconnect, expected: the type the rotation makes due (hist.expect before)
\* again: this step is a disconnect() that follows another with nothing but
\* renders and time between; same: it left the connectionState the first
\* had left
\* late: the status a transport reported in this step after its disconnect()
\* had reported 'closed' (done)
\* forced: the transport type a forceReconnect of this step passed to
\* onReconnect; forceFailed: the catch of forceReconnect ran in this step
\* handled: how often handleTransportError ran in this step, each run
\* classifying the error and adding one error message
\* stale: what the reports of an instance that transportRef no longer holds
\* did in this step: "status" (the status the renders settle in changed),
\* "start" (startReconnection), "error" (handleTransportError), in order
NoEv ==
  [name |-> "init", loss |-> FALSE, cancelled |-> FALSE, start |-> NoStart,
   forced |-> "none", forceFailed |-> FALSE,
   target |-> "none", expected |-> "none", again |-> FALSE, same |-> TRUE,
   late |-> "none", handled |-> 0, stale |-> <<>>]

\* Turns the program starts itself: those of its timers and of the requests
\* it sends
OwnTurns == {"timer", "countdown", "closeDone"}

\* The start of an event-loop turn; hist.events counts the turns the
\* environment starts, where hist.counted says they are counted; a
\* disconnect() repeated at once is counted once
Begin(w, name, arg) ==
  [w EXCEPT !.hist.ev = [NoEv EXCEPT !.name = name],
            !.hist.turns = @ + 1,
            !.hist.events = IF \/ name \in OwnTurns
                               \/ ~w.hist.counted
                               \/ name = "disconnect" /\ w.hist.lastCall = "disconnect"
                              THEN @ ELSE @ + 1,
            !.hist.lastCall = "none",
            !.hist.callbacks = IF name = "timer" THEN Min(@ + 1, maxAttempts + 1) ELSE @]

(***************************************************************************)
(* useReconnect                                                            *)
(***************************************************************************)
\* Math.floor(baseDelay + baseDelay * jitterPercent * (2 * k/RandDen - 1))
CalculateNextDelay(currentDelay, k) ==
  LET baseDelay == Min(currentDelay * multiplier, maxDelay)
  IN IF jitter
       THEN (baseDelay * (100 * RandDen + jitterPercent * (2 * k - RandDen)))
              \div (100 * RandDen)
       ELSE baseDelay

\* DEFAULT_CONFIG, lines 37-44; jitterPercent in hundredths
DEFAULT_CONFIG ==
  [initialDelay |-> initialDelay, maxDelay |-> maxDelay, multiplier |-> multiplier,
   jitter |-> jitter, jitterPercent |-> jitterPercent]

\* calculateNextDelay with the previous delay left unmultiplied
CalculateNextDelayUnscaled(c, currentDelay, k, den) ==
  LET baseDelay == Min(currentDelay, c.maxDelay)
  IN IF c.jitter
       THEN (baseDelay * (100 * den + c.jitterPercent * (2 * k - den)))
              \div (100 * den)
       ELSE baseDelay

\* calculateNextDelay with the base left uncapped
CalculateNextDelayUncapped(c, currentDelay, k, den) ==
  LET baseDelay == currentDelay * c.multiplier
  IN IF c.jitter
       THEN (baseDelay * (100 * den + c.jitterPercent * (2 * k - den)))
              \div (100 * den)
       ELSE baseDelay

\* calculateNextDelay, lines 82-97, under the configuration c, with
\* Math.random() = k / den
CalculateNextDelayWith(c, currentDelay, k, den) ==
  LET baseDelay == Min(currentDelay * c.multiplier, c.maxDelay)
  IN IF c.jitter
       THEN (baseDelay * (100 * den + c.jitterPercent * (2 * k - den)))
              \div (100 * den)
       ELSE baseDelay

IndexOf(t) == CHOOSE i \in 1..Len(TRANSPORT_FALLBACK_ORDER) : TRANSPORT_FALLBACK_ORDER[i] = t

GetNextTransport(current) ==
  TRANSPORT_FALLBACK_ORDER[(IndexOf(current) % Len(TRANSPORT_FALLBACK_ORDER)) + 1]

\* The type of the transport in use: that of the instance the coordinator
\* holds, else the currentTransport the controller is given
ActiveTransport(w) ==
  IF w.transportRef # 0 THEN w.transports[w.transportRef].type
  ELSE w.connectionState.transport

ClearTimers(w) ==
  [w EXCEPT !.timers = {t \in @ : t.id # w.reconnectTimerRef},
            !.reconnectTimerRef = 0,
            !.countdownTimerRef = [delay |-> 0, left |-> 0],
            !.hist.ev.cancelled = @ \/ \E t \in w.timers : t.id = w.reconnectTimerRef]

\* The interval is cleared and replaced; the setState is queued.
StartCountdown(w, delayMs) ==
  Enqueue([w EXCEPT !.countdownTimerRef = [delay |-> delayMs, left |-> delayMs]],
          U("countdown", "", Ceil(delayMs, 1000), 0))

\* setTimeout returns an id no live timeout has; the ref may still hold the
\* id of a timeout that has fired.
FreshTimerId(w) ==
  CHOOSE i \in 1..(Cardinality(w.timers) + 2) :
    /\ i # w.reconnectTimerRef
    /\ \A t \in w.timers : t.id # i
    /\ \A j \in 1..(i - 1) : j = w.reconnectTimerRef \/ \E t \in w.timers : t.id = j

\* The state scheduleReconnection's updater returns when the attempts are
\* used up, but leaving isReconnecting as it was
MaxAttemptsReachedStillReconnecting(prev) ==
  [prev EXCEPT !.maxAttemptsReached = TRUE]

\* The state scheduleReconnection's updater returns when the attempts are
\* used up, lines 163-169
MaxAttemptsReached(prev) ==
  [prev EXCEPT !.isReconnecting = FALSE, !.maxAttemptsReached = TRUE]

\* The updater of scheduleReconnection (lines 161-199): u.s is the session
\* config onReconnect closes over, k the sample Math.random() returns.
ScheduleUpdater(w, u, k) ==
  LET prev == w.state IN
  IF prev.attempts >= maxAttempts
    THEN [w EXCEPT !.state = MaxAttemptsReached(prev), !.hist.exhausted = TRUE]
    ELSE LET nextDelay == IF prev.attempts = 0 THEN initialDelay
                          ELSE CalculateNextDelay(prev.nextDelay, k)
             nextTransport == GetNextTransport(prev.currentTransport)
             w1 == StartCountdown(w, nextDelay)
             id == FreshTimerId(w1)
         IN [w1 EXCEPT
               !.timers = @ \cup {[id |-> id, transport |-> nextTransport,
                                   cfg |-> u.s, left |-> nextDelay]},
               !.reconnectTimerRef = id,
               !.hist.rearmed = @ \/ w.hist.exhausted,
               !.state = [prev EXCEPT !.isReconnecting = TRUE,
                                      !.attempts = prev.attempts + 1,
                                      !.nextDelay = nextDelay,
                                      !.currentTransport = nextTransport]]

ScheduleReconnection(w, cfg) ==
  Enqueue(ClearTimers(w), U("schedule", cfg, 0, 0))

\* scheduleReconnection called while the component has no update pending:
\* React runs the updater at once, to compute the state eagerly, and the
\* render takes the state computed.  (Where the coordinator calls
\* scheduleReconnection it has queued an update in the same turn before.)
ScheduleReconnectionEagerly(w, cfg, k) ==
  LET w1 == ScheduleUpdater(ClearTimers(w), U("schedule", cfg, 0, 0), k)
  IN Enqueue([w1 EXCEPT !.state = w.state], U("eager", w1.state, 0, 0))

StartReconnection(w, cfg) ==
  ScheduleReconnection(Enqueue([w EXCEPT !.hist.exhausted = FALSE,
                                         !.hist.rearmed = FALSE,
                                         !.hist.expect = GetNextTransport(ActiveTransport(w))],
                               U("reset0", "", 0, 0)), cfg)

\* The timeout t fires: its callback starts, lines 183-185
Fire(w, t) ==
  [w EXCEPT !.timers = @ \ {t},
            !.hist.ev.target = t.transport,
            !.hist.ev.expected = w.hist.expect,
            !.hist.expect = GetNextTransport(t.transport)]

StopReconnection(w) == Enqueue(ClearTimers(w), U("stop", "", 0, 0))

ResetReconnection(w) == Enqueue(ClearTimers(w), U("resetAll", "", 0, 0))

(***************************************************************************)
(* Error messages the transports produce, and their classification         *)
(* (src/src/utils/security.ts).  The patterns are regular expressions over *)
(* the message text; each table below lists the messages a pattern set     *)
(* matches.  The base URL is the default http://localhost:8000.            *)
(***************************************************************************)
ErrWsFailed == "WebSocket connection failed. Please ensure the backend server is running at http://localhost:8000"
ErrWsTimeout == "WebSocket connection timeout"
ErrWsAuth == "Authentication failed: Unauthorized"
ErrWsAbnormal == "WebSocket closed abnormally: 1006 - "
ErrSseClosed == "EventSource connection closed unexpectedly"
ErrInit401 == "Failed to initialize session: 401 Unauthorized"
ErrInit500 == "Failed to initialize session: 500 Internal Server Error"
ErrPoll404 == "Session not found on server"
ErrPoll500 == "Polling failed: 500 Internal Server Error"

MsgAuthCheck == "Authentication failed. Please check your credentials and try again."
MsgAuthUpdate == "Authentication failed. Please update your credentials and try again."
MsgNetwork == "Network connection failed. Please check your internet connection and try again."
MsgWebSocket == "WebSocket connection failed. Trying alternative connection method..."
Undefined == "undefined"

\* /auth/i, /unauthorized/i, /forbidden/i, /401/, /403/, /invalid.*token/i,
\* /expired.*token/i
IsAuthenticationError(msg) == msg \in {ErrWsAuth, ErrInit401}

\* /network/i, /connection/i, /timeout/i, /offline/i, /unreachable/i,
\* /ECONNREFUSED/i, /ETIMEDOUT/i
IsNetworkError(msg) == msg \in {ErrWsFailed, ErrWsTimeout, ErrSseClosed}

GetUserFriendlyErrorMessage(msg) ==
  IF IsAuthenticationError(msg) THEN MsgAuthCheck
  ELSE IF IsNetworkError(msg) THEN MsgNetwork
  ELSE IF msg \in {ErrWsAbnormal} THEN MsgWebSocket
  ELSE msg

\* handleError of errorHandler.ts: the fields the coordinator reads
HandleError(msg) ==
  [userMessage |-> GetUserFriendlyErrorMessage(msg),
   isAuthError |-> IsAuthenticationError(msg),
   shouldPreventReconnection |-> IsAuthenticationError(msg)]

(***************************************************************************)
(* The state updaters, run by the render                                   *)
(***************************************************************************)
ApplyReconnect(w, u, k) ==
  LET prev == w.state IN
  CASE u.op = "reset0" ->
         [w EXCEPT !.state = [prev EXCEPT !.attempts = 0,
                                          !.nextDelay = initialDelay,
                                          !.maxAttemptsReached = FALSE],
                   !.hist.callbacks = 0]
    [] u.op = "schedule" -> ScheduleUpdater(w, u, k)
    [] u.op = "stop" ->
         [w EXCEPT !.state = [prev EXCEPT !.isReconnecting = FALSE, !.countdown = 0]]
    [] u.op = "resetAll" ->
         [w EXCEPT !.state = [prev EXCEPT !.isReconnecting = FALSE,
                                          !.attempts = 0,
                                          !.nextDelay = initialDelay,
                                          !.countdown = 0,
                                          !.maxAttemptsReached = FALSE],
                   !.hist.callbacks = 0]
    [] u.op = "countdown" -> [w EXCEPT !.state = [prev EXCEPT !.countdown = u.n]]
    [] u.op = "transport" -> [w EXCEPT !.state = [prev EXCEPT !.currentTransport = u.s]]
    [] u.op = "eager" -> [w EXCEPT !.state = u.s]

ApplyConnection(w, u) ==
  LET prev == w.connectionState IN
  CASE u.op = "status" ->
         [w EXCEPT !.connectionState =
            [prev EXCEPT !.status = u.s,
                         !.error = IF u.s = "error" THEN prev.error ELSE Undefined]]
    [] u.op = "error" ->
         [w EXCEPT !.connectionState = [prev EXCEPT !.status = "error", !.error = u.s]]
    [] u.op = "authError" ->
         [w EXCEPT !.connectionState = [prev EXCEPT !.error = MsgAuthUpdate]]
    [] u.op \in {"connecting", "disconnected"} ->
         [w EXCEPT !.connectionState =
            [prev EXCEPT !.status = IF u.op = "connecting" THEN "connecting" ELSE "closed",
                         !.error = Undefined,
                         !.reconnectAttempts = 0,
                         !.reconnectDelay = initialDelay]]
    [] u.op = "reconnecting" ->
         [w EXCEPT !.connectionState = [prev EXCEPT !.transport = u.s,
                                                    !.status = "connecting"]]
    [] u.op = "sync" ->
         [w EXCEPT !.connectionState = [prev EXCEPT !.reconnectAttempts = u.n,
                                                    !.reconnectDelay = u.m,
                                                    !.transport = u.s]]
    [] u.op = "switch" ->
         [w EXCEPT !.connectionState = [prev EXCEPT !.transport = u.s]]
    [] u.op = "config" -> [w EXCEPT !.sessionConfig = u.s]

ReconnectOps ==
  {"reset0", "schedule", "stop", "resetAll", "countdown", "transport", "eager"}

Apply(w, u, k) ==
  IF u.op \in ReconnectOps THEN ApplyReconnect(w, u, k) ELSE ApplyConnection(w, u)

\* The render runs the queued updaters in order; ks are the samples
\* Math.random() returns to the updaters of scheduleReconnection, in order.
RECURSIVE RunQueue(_, _)
RunQueue(w, ks) ==
  IF w.queue = <<>> THEN w
  ELSE LET u == Head(w.queue)
           drawn == u.op = "schedule" /\ ks # <<>>
       IN RunQueue(Apply([w EXCEPT !.queue = Tail(@)], u,
                         IF drawn THEN Head(ks) ELSE 0),
                   IF drawn THEN Tail(ks) ELSE ks)

(***************************************************************************)
(* The effects of a render, in the order the hooks declare them.  old is   *)
(* the world before the render.                                            *)
(***************************************************************************)
\* useReconnect, lines 272-277
TransportEffect(old, w) ==
  IF w.connectionState.transport # old.connectionState.transport
    THEN Enqueue(w, U("transport", w.connectionState.transport, 0, 0))
    ELSE w

\* useReconnect, lines 284-301
ConnectedEffect(old, w) ==
  LET isConnected == w.connectionState.status = "open"
      wasConnected == w.isConnectedRef
  IN IF isConnected # (old.connectionState.status = "open")
       THEN LET w1 == [w EXCEPT !.isConnectedRef = isConnected]
            IN IF isConnected /\ ~wasConnected
                 THEN Enqueue(ClearTimers(w1), U("resetAll", "open", 0, 0))
                 ELSE w1
       ELSE w

\* SessionProvider, lines 489-496
SyncEffect(old, w) ==
  IF \/ w.state.attempts # old.state.attempts
     \/ w.state.nextDelay # old.state.nextDelay
     \/ w.state.currentTransport # old.state.currentTransport
    THEN Enqueue(w, U("sync", w.state.currentTransport, w.state.attempts,
                      w.state.nextDelay))
    ELSE w

\* reconnect (lines 383-390) is recreated when sessionConfig changes, and then
\* holds the forceReconnect of that render, with that render's currentTransport.
\* Every connect() passes a new config object.
ClosureRefresh(old, w) ==
  IF \/ w.sessionConfig # old.sessionConfig
     \/ \E j \in 1..Len(old.queue) : old.queue[j].op = "config" /\ old.queue[j].s # NoConfig
    THEN [w EXCEPT !.closureTransport = w.connectionState.transport]
    ELSE w

RenderWorld(old, ks) ==
  LET w == ClosureRefresh(old, RunQueue(old, ks))
  IN SyncEffect(old, ConnectedEffect(old, TransportEffect(old, w)))

\* The state React settles in: renders until no update is queued, or until
\* a render repeats a state (the effects then requeue each other for ever)
Quiesce(w) ==
  LET RECURSIVE From(_, _)
      From(v, seen) == IF v.queue = <<>> \/ v \in seen THEN v
                       ELSE From(RenderWorld(v, <<>>), seen \cup {v})
  IN From(w, {})

(***************************************************************************)
(* SessionProvider: the handlers the transports call back                  *)
(***************************************************************************)
\* The condition of handleStatusChange, lines 246-253
ShouldReconnect(w, status, previousStatus) ==
  /\ status \in {"closed", "error"}
  /\ w.sessionConfig # NoConfig
  /\ enableFallback
  /\ ~w.isManualDisconnectRef
  /\ previousStatus = "open"
  /\ w.timeSinceLastAttempt >= MIN_CONNECTION_INTERVAL_MS

\* handleStatusChange, lines 222-257; i is the transport that reports
HandleStatusChange(w, i, status) ==
  LET previousStatus == w.previousStatusRef
      w1 == Enqueue([w EXCEPT !.previousStatusRef = status,
                              !.hist.ev.loss = @ \/ status \in {"closed", "error"}],
                    U("status", status, 0, 0))
  IN IF ShouldReconnect(w1, status, previousStatus)
       THEN StartReconnection(
              [w1 EXCEPT !.timeSinceLastAttempt = 0,
                         !.hist.ev.start = [status |-> status,
                                         config |-> w1.sessionConfig,
                                         fallback |-> enableFallback,
                                         manual |-> w1.isManualDisconnectRef,
                                         previous |-> previousStatus,
                                         since |-> w1.timeSinceLastAttempt,
                                         gap |-> w1.hist.sinceStart,
                                         everOpen |-> w1.transports[i].wasOpen],
                         !.hist.sinceStart = 0],
              w1.sessionConfig)
       ELSE w1

\* handleTransportError, lines 267-296
HandleTransportError(w, msg) ==
  LET handledError == HandleError(msg)
      w1 == Enqueue([w EXCEPT !.hist.ev.handled = @ + 1],
                    U("error", handledError.userMessage, 0, 0))
  IN IF handledError.shouldPreventReconnection
       THEN Enqueue(StopReconnection([w1 EXCEPT !.hist.authError = "callback"]),
                    U("authError", "", 0, 0))
       ELSE w1

(***************************************************************************)
(* The transports.  An instance holds: type; ref, whether the adapter      *)
(* still holds its channel (this.ws, this.eventSource; for polling         *)
(* this.connected); chan, the state of the channel itself (the WebSocket   *)
(* or EventSource object, which outlives the adapter's reference and keeps *)
(* its handlers; for polling the session initialisation request); promise, *)
(* whether the promise connect() returned is unsettled; manual, sid,       *)
(* interval: isManualClose, sessionId, pollingInterval.  wasOpen records   *)
(* that the instance reported 'open', done that its disconnect() reported  *)
(* 'closed'.                                                               *)
(***************************************************************************)
NoTransport ==
  [type |-> "none", ref |-> FALSE, chan |-> "none", promise |-> FALSE,
   manual |-> FALSE, sid |-> FALSE, interval |-> FALSE,
   wasOpen |-> FALSE, done |-> FALSE]

\* notifyStatusChange: the coordinator registers its callbacks before connect
NotifyStatusChange(w, i, status) ==
  LET w1 == HandleStatusChange(
              [w EXCEPT !.transports[i].wasOpen = @ \/ status = "open",
                        !.hist.ev.late = IF w.transports[i].done THEN status ELSE @],
              i, status)
      changed == Quiesce(w1).connectionState.status # Quiesce(w).connectionState.status
      started == w1.hist.ev.start # w.hist.ev.start
  IN IF i = w.transportRef THEN w1
     ELSE [w1 EXCEPT !.hist.ev.stale =
             @ \o (IF changed THEN <<"status">> ELSE <<>>)
               \o (IF started THEN <<"start">> ELSE <<>>)]

\* handleError, WebSocketTransport.ts lines 267-271 (EventSourceTransport.ts
\* and PollingTransport.ts alike): the coordinator registers its error callback
\* before connect
TransportHandleError(w, i, msg) ==
  HandleTransportError(
    IF i = w.transportRef THEN w ELSE [w EXCEPT !.hist.ev.stale = Append(@, "error")],
    msg)

\* The notifyStatusChange('closed') that ends disconnect()
NotifyClosed(w, i) ==
  [HandleStatusChange(w, i, "closed") EXCEPT !.transports[i].done = TRUE]

\* WebSocketTransport.connect, lines 20-97, on a new instance
WsConnect(w, i) ==
  NotifyStatusChange(
    [w EXCEPT !.transports[i].ref = TRUE, !.transports[i].chan = "connecting",
              !.transports[i].promise = TRUE],
    i, "connecting")

\* WebSocketTransport.disconnect, lines 102-115.  close() on a socket that is
\* connecting or open leaves it closing: its events arrive later.
WsDisconnect(w, i) ==
  LET t == w.transports[i]
      closing == IF ~t.ref THEN t.chan
                 ELSE IF t.chan = "connecting" THEN "closingC"
                 ELSE IF t.chan = "open" THEN "closingO"
                 ELSE t.chan
  IN NotifyClosed(
       [w EXCEPT !.transports[i].chan = closing,
                 !.transports[i].ref = FALSE],
       i)

\* EventSourceTransport.connect, lines 21-71, on a new instance
EsConnect(w, i) ==
  NotifyStatusChange(
    [w EXCEPT !.transports[i].ref = TRUE, !.transports[i].chan = "connecting",
              !.transports[i].manual = FALSE, !.transports[i].promise = TRUE],
    i, "connecting")

\* EventSourceTransport.disconnect, lines 76-86: a closed EventSource fires
\* no further event.
EsDisconnect(w, i) ==
  LET t == w.transports[i]
  IN NotifyClosed(
       [w EXCEPT !.transports[i].manual = TRUE,
                 !.transports[i].chan = IF t.ref THEN "closed" ELSE t.chan,
                 !.transports[i].ref = FALSE, !.transports[i].sid = FALSE],
       i)

\* PollingTransport.connect, lines 25-34, on a new instance: up to the await
\* of initializeSession
PollConnect(w, i) ==
  [NotifyStatusChange(w, i, "connecting")
     EXCEPT !.transports[i].chan = "connecting", !.transports[i].promise = TRUE]

\* PollingTransport.disconnect, lines 52-71: up to the await of closeSession
PollDisconnectBegin(w, i) ==
  [w EXCEPT !.transports[i].ref = FALSE, !.transports[i].interval = FALSE]

\* PollingTransport.disconnect, lines 73-75
PollDisconnectEnd(w, i) ==
  NotifyClosed([w EXCEPT !.transports[i].sid = FALSE], i)

\* transport.connect(sessionConfig)
TrConnect(w, i) ==
  CASE w.transports[i].type = "websocket" -> WsConnect(w, i)
    [] w.transports[i].type = "sse" -> EsConnect(w, i)
    [] w.transports[i].type = "polling" -> PollConnect(w, i)

\* Whether transport.disconnect() suspends (in the closeSession request)
DisconnectSuspends(w, i) == w.transports[i].type = "polling" /\ w.transports[i].sid

\* transport.disconnect() up to its first suspension, or to its end
TrDisconnect(w, i) ==
  CASE w.transports[i].type = "websocket" -> WsDisconnect(w, i)
    [] w.transports[i].type = "sse" -> EsDisconnect(w, i)
    [] w.transports[i].type = "polling" ->
         IF DisconnectSuspends(w, i) THEN PollDisconnectBegin(w, i)
         ELSE PollDisconnectEnd(PollDisconnectBegin(w, i), i)

(***************************************************************************)
(* Async functions of the coordinator.  A task is one call suspended in an *)
(* await: fn is the function, caller who awaits its result ("timer": the   *)
(* reconnect timeout's callback, "force": forceReconnect, "ui": nobody     *)
(* the model follows), pc the await it is in ("disconnect": of the old     *)
(* transport tr, "connect": of the new transport tr, "onReconnect": of the *)
(* callback as a whole), transport and cfg the values it closed over.      *)
(***************************************************************************)
FreshCallId(w) ==
  CHOOSE i \in 1..(Cardinality(w.calls) + 1) :
    /\ \A c \in w.calls : c.id # i
    /\ \A j \in 1..(i - 1) : \E c \in w.calls : c.id = j

Suspend(w, fn, caller, pc, tr, transport, cfg) ==
  [w EXCEPT !.calls = @ \cup {[id |-> FreshCallId(w), fn |-> fn, caller |-> caller,
                               pc |-> pc, tr |-> tr, transport |-> transport,
                               cfg |-> cfg]}]

\* A slot whose instance nothing refers to and no event can reach any more
Inert(w, i) ==
  LET t == w.transports[i]
  IN /\ w.transportRef # i
     /\ \A c \in w.calls : c.tr # i
     /\ ~t.promise
     /\ IF t.type = "polling"
          THEN t.chan # "connecting" /\ ~t.ref /\ ~t.interval
          ELSE t.chan \in {"none", "closed"}

FreeSlot(w) ==
  IF \E i \in 1..MaxTransports : Inert(w, i)
    THEN CHOOSE i \in 1..MaxTransports :
           Inert(w, i) /\ \A j \in 1..(i - 1) : ~Inert(w, j)
    ELSE 0

\* createTransport(type), transportRef.current = it
CreateTransport(w, i, type) ==
  [w EXCEPT !.transports[i] = [NoTransport EXCEPT !.type = type],
            !.transportRef = i]

\* The catch of the caller of onReconnect: lines 186-189 (timer callback) and
\* 263-266 (forceReconnect)
OnReconnectRejected(w, caller, cfg) ==
  CASE caller = "timer" -> ScheduleReconnection(w, cfg)
    [] caller = "force" ->
         StartReconnection([w EXCEPT !.hist.ev.forceFailed = TRUE], cfg)
    [] OTHER -> w

\* handleReconnection from the await of disconnect on, lines 148-165
ReconnectRest(w, transport, cfg, caller) ==
  LET i == FreeSlot(w)
      w1 == Enqueue(w, U("reconnecting", transport, 0, 0))
  IN IF i = 0 THEN [w EXCEPT !.hist.overflow = TRUE]
     ELSE Suspend(TrConnect(CreateTransport(w1, i, transport), i),
                  "handleReconnection", caller, "connect", i, transport, cfg)

\* handleReconnection, lines 132-146
HandleReconnection(w, transport, cfg, caller) ==
  IF cfg = NoConfig THEN OnReconnectRejected(w, caller, cfg)
  ELSE IF w.isManualDisconnectRef THEN w
  ELSE LET w0 == w
           tr == w.transportRef
       IN IF tr # 0
            THEN IF DisconnectSuspends(w0, tr)
                   THEN Suspend(TrDisconnect(w0, tr), "handleReconnection", caller,
                                "disconnect", tr, transport, cfg)
                   ELSE ReconnectRest(TrDisconnect(w0, tr), transport, cfg, caller)
            ELSE ReconnectRest(w0, transport, cfg, caller)

\* connect from the await of disconnect on, lines 325-344
ConnectRest(w, transport, cfg) ==
  LET i == FreeSlot(w)
  IN IF i = 0 THEN [w EXCEPT !.hist.overflow = TRUE]
     ELSE Suspend(TrConnect(Enqueue(CreateTransport(w, i, transport),
                                    U("connecting", "", 0, 0)), i),
                  "connect", "ui", "connect", i, transport, cfg)

\* connect, lines 306-323; transport is connectionState.transport as the
\* caller's render saw it
Connect(w, cfg, transport) ==
  LET w1 == StopReconnection(
              Enqueue([w EXCEPT !.isManualDisconnectRef = FALSE,
                                !.timeSinceLastAttempt = 0,
                                !.hist.authError = "none"],
                      U("config", cfg, 0, 0)))
      tr == w.transportRef
  IN IF tr # 0
       THEN IF DisconnectSuspends(w1, tr)
              THEN Suspend(TrDisconnect(w1, tr), "connect", "ui", "disconnect", tr,
                           transport, cfg)
              ELSE ConnectRest(TrDisconnect(w1, tr), transport, cfg)
       ELSE ConnectRest(w1, transport, cfg)

\* disconnect, lines 354-378: the transport's disconnect() is not awaited
Disconnect(w) ==
  LET w1 == StopReconnection([w EXCEPT !.isManualDisconnectRef = TRUE])
      tr == w.transportRef
      w2 == IF tr # 0
              THEN [(IF DisconnectSuspends(w1, tr)
                       THEN Suspend(TrDisconnect(w1, tr), "disconnect", "ui",
                                    "disconnect", tr, "", NoConfig)
                       ELSE TrDisconnect(w1, tr))
                    EXCEPT !.transportRef = 0]
              ELSE w1
  IN Enqueue(Enqueue(w2, U("config", NoConfig, 0, 0)), U("disconnected", "", 0, 0))

\* forceReconnect, lines 247-267
ForceReconnectBegin(w) ==
  Enqueue(ClearTimers([w EXCEPT !.hist.exhausted = FALSE, !.hist.rearmed = FALSE]),
          U("resetAll", "", 0, 0))

\* The promise connect() of transport i returned settles: the function that
\* awaits it goes on (connect lines 345-348, handleReconnection lines 166-169).
Settle(w, i, ok, err) ==
  IF ~w.transports[i].promise THEN w
  ELSE LET w1 == [w EXCEPT !.transports[i].promise = FALSE,
                           !.calls = {c \in @ : ~(c.pc = "connect" /\ c.tr = i)}]
           waiting == {c \in w.calls : c.pc = "connect" /\ c.tr = i}
       IN IF ok \/ waiting = {} THEN w1
          ELSE LET c == CHOOSE x \in waiting : TRUE
               IN IF c.fn = "connect" THEN HandleTransportError(w1, err)
                  ELSE OnReconnectRejected(
                         IF IsAuthenticationError(err)
                           THEN [w1 EXCEPT !.hist.authError = "rejection"] ELSE w1,
                         c.caller, c.cfg)

(***************************************************************************)
(* Initial state: the provider is mounted, nothing is connected.           *)
(***************************************************************************)
NoHist ==
  [ev |-> NoEv, turns |-> 0, events |-> 0, overflow |-> FALSE,
   authError |-> "none", sinceStart |-> TickMs, exhausted |-> FALSE,
   rearmed |-> FALSE, callbacks |-> 0, expect |-> "none", counted |-> TRUE,
   lastCall |-> "none"]

Mounted(h) ==
  /\ enableFallback \in BOOLEAN
  /\ preferred \in TransportType
  /\ state = [isReconnecting |-> FALSE, attempts |-> 0, nextDelay |-> initialDelay,
              countdown |-> 0, currentTransport |-> preferred,
              maxAttemptsReached |-> FALSE]
  /\ reconnectTimerRef = 0
  /\ countdownTimerRef = [delay |-> 0, left |-> 0]
  /\ isConnectedRef = FALSE
  /\ timers = {}
  /\ sessionConfig = NoConfig
  /\ connectionState = [status |-> "closed", transport |-> preferred,
                        error |-> Undefined, reconnectAttempts |-> 0,
                        reconnectDelay |-> initialDelay]
  /\ transportRef = 0
  /\ isManualDisconnectRef = FALSE
  /\ previousStatusRef = "closed"
  /\ timeSinceLastAttempt = MIN_CONNECTION_INTERVAL_MS
  /\ closureTransport = preferred
  /\ transports = [i \in 1..MaxTransports |-> NoTransport]
  /\ calls = {}
  /\ queue = <<>>
  /\ hist = h

\* The backoff computation and the message console at rest
NoBackoff ==
  [config |-> DEFAULT_CONFIG, attempts |-> 0, nextDelay |-> initialDelay,
   previous |-> 0]

NoMsgHist ==
  [name |-> "init", appended |-> <<>>, count |-> 0, id |-> 0, outcome |-> "none",
   threw |-> FALSE, calls |-> 0]

BackoffIdle == backoff = NoBackoff

\* What one step of an adapter did: the call or event, its argument (code of
\* a close event, event type of a frame or answer of a request, ok), the
\* statuses, errors and messages it passed to the callbacks in order, the
\* requests it sent to the peer, the poll requests among them, the error it
\* threw, isConnected() before it, and whether it left the fields as they were
NoOut ==
  [call |-> "none", code |-> 0, event |-> "none", ok |-> TRUE,
   status |-> <<>>, errors |-> <<>>, msgs |-> <<>>, requests |-> 0, polls |-> 0,
   threw |-> "none", wasConnected |-> FALSE, unchanged |-> TRUE]

\* A new adapter instance.  sock is the readyState of the WebSocket or
\* EventSource object created last ("closingC", "closingO": close() was
\* called while connecting, open), ref whether this.ws / this.eventSource
\* holds it; connectionTimeout 0 is null and n > 0 a timeout due after n - 1
\* ticks; promise is the promise the last connect() returned; sessionId 0 is
\* null, n the identifier received on the n-th connection; init, polls,
\* closing are the requests in flight (initializeSession, poll by number,
\* closeSession) and abortController the poll it can abort, 0 = null.
\* History: gen counts the connections, waited the ticks the promise has
\* been pending, last is the status reported last, disc that disconnect()
\* was called and done that it completed since the last connect(), steps
\* the calls and events so far.
NoAdapter ==
  [kind |-> "none", sock |-> "none", ref |-> FALSE, connectionTimeout |-> 0,
   promise |-> "none", isManualClose |-> FALSE, sessionId |-> 0,
   connected |-> FALSE, pollingInterval |-> FALSE, abortController |-> 0,
   init |-> FALSE, polls |-> {}, closing |-> FALSE,
   gen |-> 0, waited |-> 0, last |-> "none", disc |-> FALSE, done |-> FALSE,
   steps |-> 0, out |-> NoOut]

ConsoleIdle ==
  /\ messages = <<>>
  /\ speakProposals = <<>>
  /\ msgQueue = <<>>
  /\ msgHist = NoMsgHist

Init == Mounted(NoHist) /\ BackoffIdle /\ ConsoleIdle /\ adapter = NoAdapter

Samples == 0..(RandDen - 1)

\* The bounds every event-loop turn keeps
Bounded(w) ==
  /\ ~w.hist.overflow
  /\ w.hist.turns <= MaxTurns
  /\ w.hist.events <= MaxEvents

\* The end of an event-loop turn; a turn that queued no update leaves
\* nothing to render
Do(w) ==
  /\ Bounded(w)
  /\ Commit(IF w.queue = <<>> THEN [w EXCEPT !.hist.turns = 0] ELSE w)

(***************************************************************************)
(* React and time                                                          *)
(***************************************************************************)
\* The updaters of scheduleReconnection that draw a sample: those that run
\* with attempts > 0 do; one sample per queued updater covers them.
ScheduleCount(w) ==
  Cardinality({j \in 1..Len(w.queue) : w.queue[j].op = "schedule"})

\* "opened": the render that runs the reset the isConnected effect queued on
\* a transition to open, nothing else having happened since that effect
RenderName ==
  IF hist.turns = 0 /\ \E j \in 1..Len(queue) : queue[j] = U("resetAll", "open", 0, 0)
    THEN "opened" ELSE "render"

Render ==
  /\ queue # <<>>
  /\ \E ks \in [1..ScheduleCount(W) -> Samples] :
       Commit(RenderWorld([W EXCEPT !.hist.ev = [NoEv EXCEPT !.name = RenderName],
                                   !.hist.turns = 0], ks))

Later(x, cap) == Min(x + TickMs, cap)
Sooner(x) == Max(x - TickMs, 0)

\* TickMs pass.  React renders sooner than that.
Tick ==
  /\ queue = <<>>
  /\ \/ timeSinceLastAttempt < MIN_CONNECTION_INTERVAL_MS
     \/ hist.sinceStart < TickMs
     \/ countdownTimerRef.left > 0
     \/ \E t \in timers : t.left > 0
  /\ Commit([W EXCEPT
       !.timeSinceLastAttempt = Later(@, MIN_CONNECTION_INTERVAL_MS),
       !.timers = {[t EXCEPT !.left = Sooner(@)] : t \in @},
       !.countdownTimerRef.left = Sooner(@),
       !.hist.sinceStart = Later(@, TickMs),
       !.hist.ev = [NoEv EXCEPT !.name = "tick"]])

\* The countdown interval fires, lines 141-152
CountdownTick ==
  /\ countdownTimerRef.delay > 0
  /\ countdownTimerRef.delay - countdownTimerRef.left >= 1000
  /\ LET remaining == Ceil(countdownTimerRef.left, 1000)
         w == Enqueue(Begin(W, "countdown", remaining), U("countdown", "", remaining, 0))
     IN /\ remaining # state.countdown
        /\ Do(IF remaining = 0
                THEN [w EXCEPT !.countdownTimerRef = [delay |-> 0, left |-> 0]]
                ELSE w)

(***************************************************************************)
(* The coordinator's public operations, called by the UI                   *)
(***************************************************************************)
UiConnect ==
  /\ hist.events < MaxEvents
  /\ Do(Connect(Begin(W, "connect", 0), Cfg, connectionState.transport))

UiDisconnect ==
  /\ hist.events < MaxEvents \/ hist.lastCall = "disconnect"
  /\ LET w == Disconnect(Begin(W, "disconnect", 0))
     IN Do([w EXCEPT !.hist.lastCall = "disconnect",
                     !.hist.ev.again = (hist.lastCall = "disconnect"),
                     !.hist.ev.same =
                       (Quiesce(w).connectionState = Quiesce(W).connectionState)])

\* reconnect, lines 383-390
UiReconnect ==
  /\ sessionConfig # NoConfig
  /\ Do(HandleReconnection(
          [ForceReconnectBegin(Begin(W, "reconnect", 0))
             EXCEPT !.hist.ev.forced = closureTransport],
          closureTransport, sessionConfig, "force"))

\* A reconnect timeout fires: its callback, lines 183-190
TimerFire ==
  \E t \in timers :
    /\ t.left = 0
    /\ Do(HandleReconnection(Fire(Begin(W, "timer", t.id), t),
                             t.transport, t.cfg, "timer"))

(***************************************************************************)
(* WebSocket events.  The handlers stay on the socket after the adapter    *)
(* has dropped it.  The error and the close event of a failed connection   *)
(* are dispatched in one task; the promise reactions of the rejection run  *)
(* between the two handlers.                                               *)
(***************************************************************************)
CloseCodes == {1000, 1001, 1006, 1008, 4001, 4003}
\* The codes ws.onclose reports as an authentication failure, line 70
AuthCloseCodes == {1008, 4001, 4003}

\* ws.onclose, lines 59-78
WsOnClose(w, i, code) ==
  LET w1 == [w EXCEPT !.transports[i].chan = "closed"]
  IN IF code # 1000 /\ code # 1001
       THEN IF code \in AuthCloseCodes
              THEN [TransportHandleError(NotifyStatusChange(w1, i, "error"), i,
                                         ErrWsAuth)
                      EXCEPT !.hist.authError = "wsClose"]
              ELSE TransportHandleError(NotifyStatusChange(w1, i, "error"), i,
                                        ErrWsAbnormal)
       ELSE NotifyStatusChange(w1, i, "closed")

\* ws.onerror, lines 81-89, and the reactions of the rejected promise
WsOnError(w, i) ==
  Settle(TransportHandleError(w, i, ErrWsFailed), i, FALSE, ErrWsFailed)

\* ws.onopen, lines 44-51
WsOpen ==
  \E i \in 1..MaxTransports :
    /\ transports[i].type = "websocket" /\ transports[i].chan = "connecting"
    /\ Do(Settle(NotifyStatusChange(
                   [Begin(W, "wsOpen", i) EXCEPT !.transports[i].chan = "open"],
                   i, "open"),
                 i, TRUE, ""))

\* The connection cannot be established
WsFail ==
  \E i \in 1..MaxTransports :
    /\ transports[i].type = "websocket" /\ transports[i].chan = "connecting"
    /\ Do(WsOnClose(WsOnError(Begin(W, "wsFail", i), i), i, 1006))

\* The server closes an open connection with a close frame
WsPeerClose ==
  \E i \in 1..MaxTransports, code \in CloseCodes \ {1006} :
    /\ transports[i].type = "websocket" /\ transports[i].chan = "open"
    /\ Do(WsOnClose(Begin(W, IF code \in AuthCloseCodes THEN "wsCloseAuth"
                                                          ELSE "wsClose", code),
                     i, code))

\* An open connection is lost
WsDrop ==
  \E i \in 1..MaxTransports :
    /\ transports[i].type = "websocket" /\ transports[i].chan = "open"
    /\ Do(WsOnClose(WsOnError(Begin(W, "wsDrop", i), i), i, 1006))

\* The events of a socket the adapter closed: close() while connecting fails
\* the connection (error, close 1006); close() while open ends in a clean
\* close, or in a failed one if the closing handshake does not complete.
WsLate ==
  \E i \in 1..MaxTransports, clean \in BOOLEAN :
    /\ transports[i].type = "websocket"
    /\ \/ transports[i].chan = "closingC" /\ ~clean
       \/ transports[i].chan = "closingO"
    /\ Do(IF clean
            THEN WsOnClose(Begin(W, "wsLate", 1000), i, 1000)
            ELSE WsOnClose(WsOnError(Begin(W, "wsLate", 1006), i), i, 1006))

(***************************************************************************)
(* EventSource events.  A closed EventSource dispatches nothing.           *)
(***************************************************************************)
\* eventSource.onopen, lines 36-39
EsOpen ==
  \E i \in 1..MaxTransports :
    /\ transports[i].type = "sse" /\ transports[i].chan = "connecting"
    /\ Do(Settle(NotifyStatusChange(
                   [Begin(W, "esOpen", i) EXCEPT !.transports[i].chan = "open"],
                   i, "open"),
                 i, TRUE, ""))

\* eventSource.onerror with readyState CONNECTING, lines 56-59
EsRetry ==
  \E i \in 1..MaxTransports :
    /\ transports[i].type = "sse" /\ transports[i].chan \in {"connecting", "open"}
    /\ Do(NotifyStatusChange(
            [Begin(W, "esRetry", i) EXCEPT !.transports[i].chan = "connecting"],
            i, "connecting"))

\* eventSource.onerror with readyState CLOSED, lines 49-55
EsFatal ==
  \E i \in 1..MaxTransports :
    /\ transports[i].type = "sse" /\ transports[i].chan \in {"connecting", "open"}
    /\ LET w == [Begin(W, "esFatal", i) EXCEPT !.transports[i].chan = "closed"]
       IN Do(IF w.transports[i].manual THEN w
             ELSE Settle(TransportHandleError(NotifyStatusChange(w, i, "error"), i,
                                              ErrSseClosed),
                         i, FALSE, ErrSseClosed))

(***************************************************************************)
(* Polling events                                                          *)
(***************************************************************************)
\* initializeSession resolves: connect, lines 31-37; startPolling, lines
\* 196-208, runs before the reactions of the resolved promise
PollInitOk ==
  \E i \in 1..MaxTransports :
    /\ transports[i].type = "polling" /\ transports[i].chan = "connecting"
    /\ Do(Settle([NotifyStatusChange(
                    [Begin(W, "pollInitOk", i) EXCEPT
                       !.transports[i].chan = "open", !.transports[i].sid = TRUE,
                       !.transports[i].ref = TRUE],
                    i, "open")
                  EXCEPT !.transports[i].interval = TRUE],
                 i, TRUE, ""))

\* initializeSession rejects: connect's catch, lines 38-46
PollInitFail ==
  \E i \in 1..MaxTransports, err \in {ErrInit401, ErrInit500} :
    /\ transports[i].type = "polling" /\ transports[i].chan = "connecting"
    /\ Do(Settle(NotifyStatusChange(
                   [Begin(W, "pollInitFail", i) EXCEPT
                      !.transports[i].chan = "closed", !.transports[i].ref = FALSE],
                   i, "error"),
                 i, FALSE, err))

\* A poll request fails: poll, lines 268-276
PollFail ==
  \E i \in 1..MaxTransports, err \in {ErrPoll404, ErrPoll500} :
    /\ transports[i].type = "polling" /\ transports[i].ref /\ transports[i].sid
    /\ Do(TransportHandleError(Begin(W, "pollFail", i), i, err))

\* The closeSession request of a PollingTransport.disconnect() ends, and the
\* function awaiting that disconnect() goes on
CloseDone ==
  \E c \in calls :
    /\ c.pc = "disconnect"
    /\ LET w == PollDisconnectEnd([Begin(W, "closeDone", c.tr) EXCEPT !.calls = @ \ {c}],
                                  c.tr)
       IN Do(CASE c.fn = "connect" -> ConnectRest(w, c.transport, c.cfg)
               [] c.fn = "handleReconnection" ->
                    ReconnectRest(w, c.transport, c.cfg, c.caller)
               [] OTHER -> w)

(***************************************************************************)
(* The controller alone, under any caller: the operations it returns, its  *)
(* timers, its props, and an onReconnect callback that resolves or rejects *)
(* by itself.                                                              *)
(***************************************************************************)
CtlStartReconnection ==
  /\ hist.events < MaxEvents
  /\ Do(StartReconnection(Begin(W, "start", 0), Cfg))

CtlStopReconnection ==
  /\ hist.events < MaxEvents
  /\ Do(StopReconnection(Begin(W, "stop", 0)))

CtlResetReconnection ==
  /\ hist.events < MaxEvents
  /\ Do(ResetReconnection(Begin(W, "reset", 0)))

\* forceReconnect, lines 247-260, up to the await of onReconnect
CtlForceReconnect ==
  /\ hist.events < MaxEvents
  /\ Do(Suspend([ForceReconnectBegin(Begin(W, "force", 0))
                   EXCEPT !.hist.ev.forced = connectionState.transport],
                "onReconnect", "force", "onReconnect", 0, connectionState.transport, Cfg))

\* The timeout's callback, lines 183-185, up to the await of onReconnect
CtlTimerFire ==
  \E t \in timers :
    /\ t.left = 0
    /\ Do(Suspend(Fire(Begin(W, "timer", t.id), t),
                  "onReconnect", "timer", "onReconnect", 0, t.transport, t.cfg))

CtlResolve ==
  \E c \in calls : Do([Begin(W, "resolve", c.id) EXCEPT !.calls = @ \ {c}])

\* onReconnect rejects: the catch of its caller
CtlReject ==
  \E c \in calls, eager \in BOOLEAN, k \in Samples :
    LET w == [Begin(W, "reject", c.id) EXCEPT !.calls = @ \ {c}]
    IN IF eager
         THEN /\ c.caller = "timer" /\ queue = <<>>
              /\ Do(ScheduleReconnectionEagerly(w, c.cfg, k))
         ELSE k = 0 /\ Do(OnReconnectRejected(w, c.caller, c.cfg))

\* The component renders the hook with another isConnected
CtlStatus ==
  \E status \in {"open", "closed"} \ {connectionState.status} :
    Do(Enqueue(Begin(W, "status", 0), U("status", status, 0, 0)))

NextCtl ==
  \/ Render
  \/ Tick
  \/ CountdownTick
  \/ CtlStartReconnection
  \/ CtlStopReconnection
  \/ CtlResetReconnection
  \/ CtlForceReconnect
  \/ CtlTimerFire
  \/ CtlResolve
  \/ CtlReject
  \/ CtlStatus

InitCtl == Init /\ enableFallback /\ preferred = "websocket"

SpecCtl == InitCtl /\ [][NextCtl]_vars

Next ==
  \/ Render
  \/ Tick
  \/ CountdownTick
  \/ UiConnect
  \/ UiDisconnect
  \/ UiReconnect
  \/ TimerFire
  \/ WsOpen
  \/ WsFail
  \/ WsPeerClose
  \/ WsDrop
  \/ WsLate
  \/ EsOpen
  \/ EsRetry
  \/ EsFatal
  \/ PollInitOk
  \/ PollInitFail
  \/ PollFail
  \/ CloseDone

Spec == Init /\ [][Next]_vars

(***************************************************************************)
(* The properties claimed of the subsystem                                 *)
(***************************************************************************)
\* C1: at most one reconnect timeout is pending at any time, whatever the
\* sequence of startReconnection, stopReconnection, resetReconnection,
\* forceReconnect, timer expiries and failed reconnect callbacks.
C1_OneTimerPending == Cardinality(timers) <= 1

\* C2: at most one transport instance the coordinator created is live at any
\* time.  Live: a socket or event source that is connecting or open; a polling
\* transport that is connected or polling, or is the current transport and
\* initialising its session.
C2_OneLiveTransport ==
  Cardinality({i \in 1..MaxTransports :
                 LET t == transports[i]
                 IN IF t.type = "polling"
                      THEN t.ref \/ t.interval
                             \/ (t.chan = "connecting" /\ transportRef = i)
                      ELSE t.chan \in {"connecting", "open"}}) <= 1

\* C3: from disconnect() until the next connect() (the manual-disconnect flag
\* is set exactly then) no reconnection is started, no reconnect timer is
\* pending, no transport is created and none reports 'open'.
C3_QuietAfterDisconnect ==
  isManualDisconnectRef =>
    /\ hist.ev.start = NoStart
    /\ timers = {}
    /\ transportRef = 0
    /\ hist.ev.name \notin {"wsOpen", "esOpen", "pollInitOk"}

\* C4: a scheduling request that finds attempts >= maxAttempts sets
\* maxAttemptsReached and clears isReconnecting; after it no reconnect timer
\* is armed until startReconnection or forceReconnect is called; and at most
\* maxAttempts timer callbacks run between two resets of the attempts counter.
C4_ExhaustionStops ==
  /\ state.maxAttemptsReached => ~state.isReconnecting
  /\ ~hist.rearmed
  /\ hist.callbacks <= maxAttempts

\* C5: when the peer closes an open WebSocket with code 1008, 4001 or 4003,
\* then once the updates of that event are rendered no reconnect timer is
\* pending and connectionState.error is the "update your credentials" message.
C5_AuthCloseArmsNoTimer ==
  hist.ev.name = "wsCloseAuth" =>
    /\ RunQueue(W, <<>>).timers = {}
    /\ RunQueue(W, <<>>).connectionState.error = MsgAuthUpdate

\* C6: from an authentication error (reported to the error callback, or the
\* rejection of a connection attempt) until the next connect(), no reconnect
\* timer's callback carries out a reconnection attempt.
C6_NoRetryAfterAuthError ==
  hist.authError # "none" =>
    ~(/\ hist.ev.name = "timer"
      /\ transportRef # 0
      /\ transports[transportRef].chan = "connecting")

\* C7: the status-change handler starts reconnection only on 'closed' or
\* 'error', with a session config, fallback enabled, the manual-disconnect
\* flag clear, the previous status 'open' and at least 2000 ms since the last
\* recorded attempt; and only for a transport that had reported 'open'.
C7_StartOnlyAfterOpen ==
  hist.ev.start # NoStart =>
    /\ hist.ev.start.status \in {"closed", "error"}
    /\ hist.ev.start.config # NoConfig
    /\ hist.ev.start.fallback
    /\ ~hist.ev.start.manual
    /\ hist.ev.start.previous = "open"
    /\ hist.ev.start.since >= 2000
    /\ hist.ev.start.everOpen

\* C8: a connection-loss status event that reaches the coordinator within
\* 500 ms of the start of a reconnection sequence starts no second one (the
\* handler starts none within 500 ms of the last it started), and once the
\* updates of that event are rendered the sequence's timer is not duplicated.
C8_StormStartsOnce ==
  /\ hist.ev.start # NoStart => hist.ev.start.gap > 500
  /\ (hist.ev.loss /\ hist.ev.start = NoStart /\ hist.sinceStart <= 500)
       => Cardinality(RunQueue(W, <<>>).timers) <= 1

\* C9: when the status has gone from not-open to open and the reset of the
\* isConnected effect is rendered, attempts = 0, isReconnecting = false,
\* maxAttemptsReached = false, countdown = 0, nextDelay = initialDelay and no
\* reconnect timer is pending.
C9_OpenResetsController ==
  hist.ev.name = "opened" =>
    /\ state.attempts = 0
    /\ ~state.isReconnecting
    /\ ~state.maxAttemptsReached
    /\ state.countdown = 0
    /\ state.nextDelay = initialDelay
    /\ timers = {}

\* C10: forceReconnect, in any controller state, leaves no reconnect timer
\* pending, and once its update is rendered attempts = 0 and
\* maxAttemptsReached = false.
C10_ForceResets ==
  hist.ev.name = "force" =>
    /\ timers = {}
    /\ RunQueue(W, <<>>).state.attempts = 0
    /\ ~RunQueue(W, <<>>).state.maxAttemptsReached

\* C11: forceReconnect passes to the reconnect callback the transport type
\* that is current when it is called, and when that immediate attempt fails
\* the render leaves attempts = 1, nextDelay = initialDelay and the timer of
\* the first scheduled attempt armed with initialDelay.
C11_ForceUsesCurrentTransport ==
  /\ hist.ev.forced # "none" => hist.ev.forced = connectionState.transport
  /\ hist.ev.forceFailed =>
       LET r == RunQueue(W, <<>>)
       IN /\ r.state.attempts = 1
          /\ r.state.nextDelay = initialDelay
          /\ \E t \in r.timers : t.id = r.reconnectTimerRef /\ t.left = initialDelay

\* C12: every scheduled attempt that fires targets the transport type due in
\* the rotation websocket -> sse -> polling -> websocket: the successor of the
\* transport active when the sequence began for the first attempt, and the
\* successor of the previous attempt's target for each later one.
C12_RotationInOrder ==
  hist.ev.name = "timer" => hist.ev.target = hist.ev.expected

(***************************************************************************)
(* Reconnection left to itself: one connect() by the user, then only the   *)
(* program's own turns and the events of the network, uncounted.  Fairness: *)
(* React renders what is queued, time passes, an armed timeout fires, a    *)
(* fetch settles, a WebSocket handshake ends in open or error (connect     *)
(* also arms CONNECTION_TIMEOUT_MS), a closed socket gets its close event, *)
(* and a connecting EventSource goes on dispatching events: open, or error *)
(* with readyState CONNECTING or CLOSED, as the server and browser decide. *)
(***************************************************************************)
LiveConnect ==
  /\ sessionConfig = NoConfig
  /\ Do(Connect(Begin(W, "connect", 0), Cfg, connectionState.transport))

WsHandshake ==
  \/ hist.callbacks = 0 /\ WsOpen
  \/ WsFail

PollInit ==
  \/ hist.callbacks = 0 /\ PollInitOk
  \/ PollInitFail

EsConnecting ==
  /\ \E i \in 1..MaxTransports :
       transports[i].type = "sse" /\ transports[i].chan = "connecting"
  /\ (hist.callbacks = 0 /\ EsOpen) \/ EsRetry \/ EsFatal

\* The first connection opens; no scheduled attempt succeeds.
FirstOpen ==
  /\ hist.callbacks = 0
  /\ (WsOpen \/ EsOpen \/ PollInitOk)

NextLive ==
  \/ Render
  \/ Tick
  \/ CountdownTick
  \/ LiveConnect
  \/ TimerFire
  \/ FirstOpen
  \/ WsFail
  \/ WsPeerClose
  \/ WsDrop
  \/ WsLate
  \/ EsRetry
  \/ EsFatal
  \/ PollInitFail
  \/ PollFail
  \/ CloseDone

InitLive ==
  /\ Mounted([NoHist EXCEPT !.counted = FALSE]) /\ enableFallback
  /\ BackoffIdle /\ ConsoleIdle /\ adapter = NoAdapter

\* Each conjunct is weak fairness of one action: WF_vars(A) is
\* []<>~ENABLED <<A>>_vars \/ []<><<A>>_vars, written out for the handlers
\* with the guard of A in the place of ENABLED <<A>>_vars.  The guard holds
\* wherever A is enabled, so a behaviour that satisfies a conjunct satisfies
\* WF_vars(A).
Fairness ==
  /\ WF_vars(Tick)
  /\ WF_vars(CountdownTick)
  /\ []<>(queue = <<>>) \/ []<><<Render>>_vars
  /\ []<>(\A t \in timers : t.left # 0) \/ []<><<TimerFire>>_vars
  /\ []<>(\A c \in calls : c.pc # "disconnect") \/ []<><<CloseDone>>_vars
  /\ []<>(\A i \in 1..MaxTransports :
            ~(transports[i].type = "websocket" /\ transports[i].chan = "connecting"))
       \/ []<><<WsHandshake>>_vars
  /\ []<>(\A i \in 1..MaxTransports :
            ~(transports[i].type = "websocket"
              /\ transports[i].chan \in {"closingC", "closingO"}))
       \/ []<><<WsLate>>_vars
  /\ []<>(\A i \in 1..MaxTransports :
            ~(transports[i].type = "polling" /\ transports[i].chan = "connecting"))
       \/ []<><<PollInit>>_vars
  /\ []<>(\A i \in 1..MaxTransports :
            ~(transports[i].type = "sse" /\ transports[i].chan = "connecting"))
       \/ []<><<EsConnecting>>_vars

SpecLive == InitLive /\ [][NextLive]_vars /\ Fairness

\* C13: after a scheduled attempt has been made, the controller goes on: a
\* timer for the next attempt gets armed, or max-attempts-reached is set, or
\* reconnection ends (isReconnecting false); it does not stay reconnecting
\* for ever with no timer pending.
C13_NeverWedged ==
  (hist.ev.name = "timer")
    ~> (timers # {} \/ state.maxAttemptsReached \/ ~state.isReconnecting)

\* C14: with fallback enabled, when an open WebSocket connection is lost with
\* close code 1006, the render that follows leaves status 'error' and exactly
\* one reconnect timer, armed with a delay within 1000 ms +/- 20% for the
\* candidate transport 'sse'.
C14_DropSchedulesSse ==
  (hist.ev.name = "wsDrop" /\ enableFallback) =>
    LET r == RunQueue(W, <<>>)
    IN /\ r.connectionState.status = "error"
       /\ Cardinality(r.timers) = 1
       /\ \A t \in r.timers :
            /\ t.transport = "sse"
            /\ 10 * t.left >= 8 * initialDelay
            /\ 10 * t.left <= 12 * initialDelay

(***************************************************************************)
(* The backoff computation on its own: a ReconnectConfig drawn from a      *)
(* small set, and the delays scheduleReconnection computes for the         *)
(* consecutive attempts of one sequence.                                   *)
(***************************************************************************)
BackoffConfigs ==
  [initialDelay : {0, 1, initialDelay}, maxDelay : {3, maxDelay},
   multiplier : {1, multiplier}, jitter : BOOLEAN,
   jitterPercent : {jitterPercent, 50, 150}]

\* scheduleReconnection, lines 171-174 and 192-197: the delay of the next
\* attempt
DelaySchedule ==
  /\ backoff.attempts < MaxDelaySteps
  /\ \E k \in 0..(JitterDen - 1) :
       backoff' =
         [backoff EXCEPT
            !.nextDelay = IF backoff.attempts = 0
                            THEN backoff.config.initialDelay
                            ELSE CalculateNextDelayWith(backoff.config, backoff.nextDelay,
                                                        k, JitterDen),
            !.previous = backoff.nextDelay,
            !.attempts = @ + 1]
  /\ UNCHANGED <<adapter, coreVars, consoleVars>>

\* startReconnection, lines 207-212
DelayStart ==
  /\ backoff.attempts > 0
  /\ backoff' = [backoff EXCEPT !.attempts = 0,
                                !.nextDelay = backoff.config.initialDelay,
                                !.previous = 0]
  /\ UNCHANGED <<adapter, coreVars, consoleVars>>

NextDelay ==
  \/ DelaySchedule
  \/ DelayStart

InitDelay ==
  /\ Mounted(NoHist) /\ enableFallback /\ preferred = "websocket"
  /\ ConsoleIdle /\ adapter = NoAdapter
  /\ \E c \in BackoffConfigs :
       backoff = [NoBackoff EXCEPT !.config = c, !.nextDelay = c.initialDelay]

SpecDelay == InitDelay /\ [][NextDelay]_vars

\* The jitter in force, in hundredths
JitterOf(c) == IF c.jitter THEN c.jitterPercent ELSE 0

\* C15: under every configuration every delay is >= 0, and every delay whose
\* base (previous delay * multiplier) is below the cap maxDelay is at least the
\* previous delay of the sequence.
C15_DelaysNonDecreasing ==
  backoff.attempts >= 1 =>
    /\ backoff.nextDelay >= 0
    /\ (/\ backoff.attempts >= 2
        /\ backoff.previous * backoff.config.multiplier < backoff.config.maxDelay)
         => backoff.nextDelay >= backoff.previous

\* C15, amended: the same for the configurations with initialDelay >= 0,
\* maxDelay >= 0, jitterPercent within 0..1 and
\* multiplier * (1 - jitterPercent) >= 1, the default configuration among them.
C15_DelaysNonDecreasingWhenGrowing ==
  (/\ backoff.config.initialDelay >= 0
   /\ backoff.config.maxDelay >= 0
   /\ JitterOf(backoff.config) \in 0..100
   /\ backoff.config.multiplier * (100 - JitterOf(backoff.config)) >= 100)
    => C15_DelaysNonDecreasing

C15_Witness ==
  /\ backoff.config = DEFAULT_CONFIG
  /\ backoff.attempts >= 3
  /\ backoff.previous * backoff.config.multiplier < backoff.config.maxDelay
  /\ backoff.nextDelay > backoff.previous
  /\ backoff.nextDelay < backoff.previous * backoff.config.multiplier

\* The base of the delay in force: min(previous delay * multiplier, maxDelay)
BaseOf(b) == Min(b.previous * b.config.multiplier, b.config.maxDelay)

MessageTypes == {"transcript", "speak_proposal"}
ProposalIds == 1..MaxProposalIds

\* The setMessages updater of addMessage, lines 183-193, keeping the oldest
AddMessageKeepingOldest(prevMessages, message) ==
  LET newMessages == Append(prevMessages, message)
  IN IF Len(newMessages) > maxMessages
       THEN SubSeq(newMessages, 1, maxMessages)
       ELSE newMessages

\* The setMessages updater of addMessage, lines 183-193
AddMessageUpdater(prevMessages, message) ==
  LET newMessages == Append(prevMessages, message)
  IN IF Len(newMessages) > maxMessages
       THEN SubSeq(newMessages, Len(newMessages) - maxMessages + 1, Len(newMessages))
       ELSE newMessages

\* prev.filter(p => p.proposalId !== proposalId), lines 464 and 482
WithoutProposal(prev, proposalId) ==
  SelectSeq(prev, LAMBDA p : p.proposalId # proposalId)

\* One queued update of messages or speakProposals, run at render
ApplyMsg(c, u) ==
  CASE u.op = "add" -> [c EXCEPT !.messages = AddMessageUpdater(@, u.msg)]
    [] u.op = "clear" -> [c EXCEPT !.messages = <<>>]
    [] u.op = "propose" ->
         [c EXCEPT !.speakProposals = Append(@, [proposalId |-> u.msg.proposalId,
                                                 timestamp |-> u.msg.id])]
    [] u.op = "remove" ->
         [c EXCEPT !.speakProposals = WithoutProposal(@, u.msg.proposalId)]

RECURSIVE RunMsgQueue(_, _)
RunMsgQueue(c, q) ==
  IF q = <<>> THEN c ELSE RunMsgQueue(ApplyMsg(c, Head(q)), Tail(q))

\* The two lists as the next render leaves them
Rendered == RunMsgQueue([messages |-> messages, speakProposals |-> speakProposals],
                        msgQueue)

\* addMessage, lines 182-205
AddMessage ==
  /\ msgHist.count < MaxAdds
  /\ Len(msgQueue) < MaxPending
  /\ \E type \in MessageTypes, proposalId \in ProposalIds :
       LET message == [id |-> msgHist.count + 1, type |-> type,
                       proposalId |-> IF type = "speak_proposal" THEN proposalId ELSE 0]
           q == Append(msgQueue, [op |-> "add", msg |-> message])
       IN /\ type = "transcript" => proposalId = 1
          /\ msgQueue' = IF type = "speak_proposal"
                           THEN Append(q, [op |-> "propose", msg |-> message])
                           ELSE q
          /\ msgHist' = [msgHist EXCEPT !.name = "add", !.count = @ + 1,
                                        !.appended = Append(@, message),
                                        !.id = 0, !.outcome = "none"]
  /\ UNCHANGED <<adapter, coreVars, backoff, messages, speakProposals>>

\* clearMessages, lines 215-217
ClearMessages ==
  /\ msgHist.calls < MaxCalls
  /\ Len(msgQueue) < MaxPending
  /\ msgQueue' = Append(msgQueue, [op |-> "clear", msg |-> 0])
  /\ msgHist' = [msgHist EXCEPT !.name = "clear", !.appended = <<>>, !.calls = @ + 1,
                                !.id = 0, !.outcome = "none"]
  /\ UNCHANGED <<adapter, coreVars, backoff, messages, speakProposals>>

\* sendMessage, lines 413-443: it throws when there is no connected transport
\* and when the transport's send() fails
SendOutcomes == {"sent", "notConnected", "sendFailed"}

\* approveSpeakProposal, lines 455-468, and denySpeakProposal, lines 473-486:
\* the removal follows the await of sendMessage inside the try
RespondToProposal(name, proposalId, outcome) ==
  /\ msgHist.calls < MaxCalls
  /\ Len(msgQueue) < MaxPending
  /\ msgQueue' = IF outcome = "sent"
                   THEN Append(msgQueue, [op |-> "remove",
                                          msg |-> [proposalId |-> proposalId]])
                   ELSE msgQueue
  /\ msgHist' = [msgHist EXCEPT !.name = name, !.id = proposalId,
                                !.outcome = outcome, !.threw = FALSE,
                                !.calls = @ + 1]
  /\ UNCHANGED <<adapter, coreVars, backoff, messages, speakProposals>>

ApproveSpeakProposal ==
  \E proposalId \in ProposalIds, outcome \in SendOutcomes :
    RespondToProposal("approve", proposalId, outcome)

DenySpeakProposal ==
  \E proposalId \in ProposalIds, outcome \in SendOutcomes :
    RespondToProposal("deny", proposalId, outcome)

\* React renders: the queued updates run in order
MsgRender ==
  /\ msgQueue # <<>>
  /\ messages' = Rendered.messages
  /\ speakProposals' = Rendered.speakProposals
  /\ msgQueue' = <<>>
  /\ msgHist' = [msgHist EXCEPT !.name = "render", !.id = 0, !.outcome = "none"]
  /\ UNCHANGED <<adapter, coreVars, backoff>>

NextMsg ==
  \/ AddMessage
  \/ ClearMessages
  \/ ApproveSpeakProposal
  \/ DenySpeakProposal
  \/ MsgRender

InitMsg ==
  /\ Mounted(NoHist) /\ enableFallback /\ preferred = "websocket"
  /\ BackoffIdle /\ ConsoleIdle /\ adapter = NoAdapter

SpecMsg == InitMsg /\ [][NextMsg]_vars

\* The last n elements of s
LastOf(s, n) == SubSeq(s, Len(s) - n + 1, Len(s))

\* C17: after every sequence of addMessage and clearMessages calls the list
\* holds at most maxMessages entries: the most recent min(n, maxMessages) of
\* the n messages appended since the list was last cleared, unaltered and in
\* arrival order.
C17_MostRecentMessagesKept ==
  /\ Len(Rendered.messages) <= maxMessages
  /\ Rendered.messages = LastOf(msgHist.appended, Min(Len(msgHist.appended), maxMessages))

C17_Witness ==
  /\ msgQueue = <<>>
  /\ Len(msgHist.appended) > maxMessages
  /\ Len(messages) = maxMessages
  /\ messages[1].id > 1
  /\ msgHist.calls > 0

\* C18: after approveSpeakProposal(id) or denySpeakProposal(id), whatever
\* became of sending the proposal_response, the next render leaves no
\* proposal with that id in the pending list, and the call did not throw.
C18_ResponseRemovesProposal ==
  msgHist.name \in {"approve", "deny"} =>
    /\ \A j \in 1..Len(Rendered.speakProposals) :
         Rendered.speakProposals[j].proposalId # msgHist.id
    /\ ~msgHist.threw

\* C19: a disconnect() leaves connectionState.status 'closed' once React has
\* run the queued updates, and a disconnect() that directly follows another
\* leaves the same connectionState as the first did.
C19_DisconnectTwiceSame ==
  hist.ev.name = "disconnect" =>
    /\ Quiesce(W).connectionState.status = "closed"
    /\ hist.ev.again => hist.ev.same

\* C20: once a transport's disconnect() has reported 'closed', the instance
\* reports no further status and isConnected() stays false.
C20_ClosedIsTerminal ==
  /\ hist.ev.late = "none"
  /\ \A i \in 1..MaxTransports : transports[i].done => ~transports[i].ref

(***************************************************************************)
(* One transport adapter alone, under any caller: connect(), disconnect()  *)
(* and send() in any order, the events of its socket or EventSource, the   *)
(* answers to its requests, its timers.  The caller has registered the     *)
(* three callbacks, as the coordinator does before connect().  It calls    *)
(* connect() only while no connection attempt and no disconnect() of the   *)
(* instance is under way, and disconnect() only while no disconnect() is.  *)
(***************************************************************************)
\* The time CONNECTION_TIMEOUT_MS takes, in ticks
TimeoutTicks == 2
\* The calls and events of one behaviour
MaxSteps == 9
\* The poll requests in flight at once
MaxPolls == 2

\* notifyStatusChange, with the callback registered
EmitStatus(a, status) ==
  [a EXCEPT !.out.status = Append(@, status), !.last = status]

\* handleError, with the callback registered
EmitError(a, error) == [a EXCEPT !.out.errors = Append(@, error)]

\* resolve() / reject(error) of the promise connect() returned: a settled
\* promise stays as it is
SettleWith(a, outcome) ==
  [a EXCEPT !.promise = IF @ = "pending" THEN outcome ELSE @]

\* isConnected()
IsConnected(a) ==
  IF a.kind = "polling" THEN a.connected /\ a.sessionId # 0
  ELSE a.ref /\ a.sock = "open"

\* The start of a call or of an event handler
Turn(a, call, code, event, ok) ==
  [a EXCEPT !.steps = @ + 1,
            !.out = [NoOut EXCEPT !.call = call, !.code = code, !.event = event,
                                  !.ok = ok, !.wasConnected = IsConnected(a)]]

\* The end of a step; out.unchanged compares the fields of the instance
Adopt(a) ==
  /\ adapter' = [a EXCEPT !.out.unchanged =
                    ([a EXCEPT !.out = NoOut, !.steps = 0]
                       = [adapter EXCEPT !.out = NoOut, !.steps = 0])]
  /\ UNCHANGED <<coreVars, backoff, consoleVars>>

\* A connect() that never refuses
AlreadyConnectedNever(a) == FALSE

\* The guard at the head of connect()
AlreadyConnected(a) ==
  IF a.kind = "polling" THEN a.connected ELSE a.ref /\ a.sock = "open"

\* connect(): up to the return of the promise (WebSocket, EventSource), up to
\* the await of initializeSession (polling)
CallConnect ==
  /\ adapter.steps < MaxSteps
  /\ adapter.sock \in {"none", "open", "closed"}
  /\ ~adapter.init /\ ~adapter.closing
  /\ LET a == Turn(adapter, "connect", 0, "none", TRUE)
         b == [a EXCEPT !.promise = "pending", !.gen = @ + 1, !.waited = 0,
                        !.disc = FALSE, !.done = FALSE]
     IN Adopt(IF AlreadyConnected(a)
                THEN [a EXCEPT !.out.threw = "alreadyConnected"]
                ELSE CASE a.kind = "websocket" ->
                            EmitStatus([b EXCEPT !.sock = "connecting", !.ref = TRUE,
                                                 !.connectionTimeout =
                                                   TimeoutTicks + 1],
                                       "connecting")
                       [] a.kind = "sse" ->
                            EmitStatus([b EXCEPT !.sock = "connecting", !.ref = TRUE,
                                                 !.isManualClose = FALSE],
                                       "connecting")
                       [] a.kind = "polling" ->
                            [EmitStatus(b, "connecting")
                               EXCEPT !.init = TRUE, !.out.requests = @ + 1])

\* disconnect(): to its end, or to the await of closeSession (polling with a
\* session).  abort() ends the poll the controller belongs to.
CallDisconnect ==
  /\ adapter.steps < MaxSteps
  /\ ~adapter.closing
  /\ LET a == Turn(adapter, "disconnect", 0, "none", TRUE)
         b == [a EXCEPT !.disc = TRUE]
     IN Adopt(
        CASE a.kind = "websocket" ->
            [EmitStatus([b EXCEPT !.connectionTimeout = 0,
                                  !.sock = IF ~a.ref THEN @
                                           ELSE IF @ = "connecting" THEN "closingC"
                                           ELSE IF @ = "open" THEN "closingO"
                                           ELSE @,
                                  !.ref = FALSE],
                        "closed")
               EXCEPT !.done = TRUE]
       [] a.kind = "sse" ->
            [EmitStatus([b EXCEPT !.isManualClose = TRUE,
                                  !.sock = IF a.ref THEN "closed" ELSE @,
                                  !.ref = FALSE, !.sessionId = 0],
                        "closed")
               EXCEPT !.done = TRUE]
       [] a.kind = "polling" ->
            LET c == [b EXCEPT !.connected = FALSE, !.pollingInterval = FALSE,
                               !.polls = @ \ {a.abortController},
                               !.abortController = 0]
            IN IF a.sessionId # 0
                 THEN [c EXCEPT !.closing = TRUE, !.out.requests = @ + 1]
                 ELSE [EmitStatus(c, "closed") EXCEPT !.done = TRUE])

\* The closeSession request settles, either way: PollingTransport.disconnect,
\* lines 65-75
OnCloseAnswer ==
  /\ adapter.closing
  /\ LET a == Turn(adapter, "closeAnswer", 0, "none", TRUE)
     IN Adopt([EmitStatus([a EXCEPT !.sessionId = 0, !.closing = FALSE], "closed")
                 EXCEPT !.done = TRUE])

\* send(message); ok: the peer takes the frame or the request
CallSend ==
  \E ok \in BOOLEAN :
  /\ adapter.steps < MaxSteps
  /\ LET a == Turn(adapter, "send", 0, "none", ok)
         sent == [a EXCEPT !.out.requests = @ + 1,
                           !.out.threw = IF ok THEN "none" ELSE "sendFailed"]
     IN Adopt(
        CASE a.kind = "websocket" ->
            IF ~a.ref \/ a.sock # "open"
              THEN [a EXCEPT !.out.threw = "notConnected"] ELSE sent
       [] a.kind = "sse" ->
            IF a.sessionId = 0 THEN [a EXCEPT !.out.threw = "noSession"] ELSE sent
       [] a.kind = "polling" ->
            IF ~a.connected \/ a.sessionId = 0
              THEN [a EXCEPT !.out.threw = "notConnected"] ELSE sent)

\* ws.onopen, eventSource.onopen
OnOpen ==
  /\ adapter.steps < MaxSteps
  /\ adapter.kind \in {"websocket", "sse"} /\ adapter.sock = "connecting"
  /\ LET a == Turn(adapter, "open", 0, "none", TRUE)
     IN Adopt(SettleWith(EmitStatus([a EXCEPT !.sock = "open",
                                              !.connectionTimeout = 0],
                                    "open"),
                         "resolved"))

\* An onclose that takes 1000 alone for a normal closure
OnCloseGoingAwayAbnormal(a, code) ==
  LET b == [a EXCEPT !.connectionTimeout = 0, !.sock = "closed"]
  IN IF code # 1000
       THEN EmitError(EmitStatus(b, "error"),
                      IF code \in {1008, 4001, 4003} THEN "authenticationFailed"
                      ELSE "closedAbnormally")
       ELSE EmitStatus(b, "closed")

\* ws.onclose
OnClose(a, code) ==
  LET b == [a EXCEPT !.connectionTimeout = 0, !.sock = "closed"]
  IN IF code # 1000 /\ code # 1001
       THEN EmitError(EmitStatus(b, "error"),
                      IF code \in {1008, 4001, 4003} THEN "authenticationFailed"
                      ELSE "closedAbnormally")
       ELSE EmitStatus(b, "closed")

\* The close event of the socket, after its error event (ws.onerror) if the
\* connection failed.  A socket that fails to open, or that close() ended
\* before it opened, fails with 1006; a peer closes an open socket with any
\* code; close() on an open socket ends in a clean close or in a failed one.
OnCloseEvent ==
  \E code \in CloseCodes, failed \in BOOLEAN :
    /\ adapter.steps < MaxSteps
    /\ adapter.kind = "websocket"
    /\ \/ adapter.sock \in {"connecting", "closingC"} /\ failed /\ code = 1006
       \/ adapter.sock = "open" /\ (failed => code = 1006)
       \/ adapter.sock = "closingO" /\ code \in {1000, 1006} /\ (failed <=> code = 1006)
    /\ LET a == Turn(adapter, "close", code, "none", ~failed)
       IN Adopt(OnClose(IF failed
                          THEN SettleWith(EmitError([a EXCEPT !.connectionTimeout = 0],
                                                    "connectionFailed"),
                                          "rejected")
                          ELSE a,
                        code))

\* A timeout that closes the socket and reports the error, but leaves the
\* promise as it is
ExpireWithoutReject(a) ==
  IF a.ref /\ a.sock # "open"
    THEN EmitError([a EXCEPT !.sock = IF @ = "connecting" THEN "closingC" ELSE @,
                             !.connectionTimeout = 0],
                   "timeout")
    ELSE [a EXCEPT !.connectionTimeout = 0]

\* The connection timeout's callback, lines 34-41
Expire(a) ==
  IF a.ref /\ a.sock # "open"
    THEN SettleWith(EmitError([a EXCEPT !.sock = IF @ = "connecting" THEN "closingC"
                                                 ELSE @,
                                        !.connectionTimeout = 0],
                              "timeout"),
                    "rejected")
    ELSE [a EXCEPT !.connectionTimeout = 0]

OnConnectionTimeout ==
  /\ adapter.connectionTimeout = 1
  /\ Adopt(Expire(Turn(adapter, "timeout", 0, "none", TRUE)))

\* Time passes while connect() of a WebSocketTransport is pending; a timeout
\* that is due fires first
Elapse ==
  /\ adapter.kind = "websocket" /\ adapter.promise = "pending"
  /\ adapter.connectionTimeout # 1
  /\ adapter.waited <= TimeoutTicks
  /\ Adopt([adapter EXCEPT !.waited = @ + 1,
                           !.connectionTimeout = IF @ > 1 THEN @ - 1 ELSE @,
                           !.out = [NoOut EXCEPT !.call = "tick"]])

\* An open socket or stream delivers data: ws.onmessage (text or binary),
\* eventSource.onmessage and the listeners of the custom events, with
\* handleMessage; ok: the data is the JSON text of an object (with a
\* session_id, for 'session')
OnFrame ==
  \E event \in {"message", "binary", "session", "audio", "transcript", "status",
                "error_message"},
     ok \in BOOLEAN :
    /\ adapter.steps < MaxSteps
    /\ adapter.kind \in {"websocket", "sse"} /\ adapter.sock = "open"
    /\ IF adapter.kind = "websocket" THEN event \in {"message", "binary"}
       ELSE event # "binary"
    /\ LET a == Turn(adapter, "frame", 0, event, ok)
       IN Adopt(IF event = "session"
                  THEN IF ok THEN [a EXCEPT !.sessionId = a.gen] ELSE a
                  ELSE [a EXCEPT !.out.msgs =
                          Append(@, IF ok \/ event = "binary" THEN event
                                    ELSE "PARSE_ERROR")])

\* An onerror that takes a retrying stream for a closed one
OnErrorAlwaysFatal(a) ==
  IF a.ref /\ a.sock \in {"closed", "connecting"} /\ ~a.isManualClose
    THEN SettleWith(EmitError(EmitStatus(a, "error"), "closedUnexpectedly"),
                    "rejected")
    ELSE a

\* eventSource.onerror, lines 47-60
OnError(a) ==
  IF a.ref /\ a.sock = "closed"
    THEN IF ~a.isManualClose
           THEN SettleWith(EmitError(EmitStatus(a, "error"), "closedUnexpectedly"),
                           "rejected")
           ELSE a
    ELSE IF a.ref /\ a.sock = "connecting"
           THEN EmitStatus(a, "connecting")
           ELSE a

\* The error event of an EventSource: the stream retries (CONNECTING) or
\* gives up (CLOSED)
OnErrorEvent ==
  \E fatal \in BOOLEAN :
    /\ adapter.steps < MaxSteps
    /\ adapter.kind = "sse" /\ adapter.sock \in {"connecting", "open"}
    /\ LET a == Turn(adapter, "error", 0, IF fatal THEN "closed" ELSE "connecting",
                     TRUE)
       IN Adopt(OnError([a EXCEPT !.sock = IF fatal THEN "closed" ELSE "connecting"]))

\* poll, lines 223-244: up to the await of fetch
Poll(a) ==
  IF ~a.connected \/ a.sessionId = 0 THEN a
  ELSE LET id == CHOOSE i \in 1..MaxPolls : i \notin a.polls
       IN [a EXCEPT !.polls = @ \cup {id}, !.abortController = id,
                    !.out.requests = @ + 1, !.out.polls = @ + 1]

\* initializeSession settles: PollingTransport.connect, lines 35-46, with
\* startPolling
OnInitAnswer ==
  \E ok \in BOOLEAN :
    /\ adapter.steps < MaxSteps
    /\ adapter.init /\ adapter.polls # 1..MaxPolls
    /\ LET a == [Turn(adapter, "initAnswer", 0, "none", ok) EXCEPT !.init = FALSE]
       IN Adopt(IF ok
                  THEN LET b == EmitStatus([a EXCEPT !.sessionId = a.gen,
                                                     !.connected = TRUE],
                                           "open")
                       IN SettleWith(IF b.pollingInterval THEN b
                                     ELSE [Poll(b) EXCEPT !.pollingInterval = TRUE],
                                     "resolved")
                  ELSE SettleWith(EmitStatus([a EXCEPT !.connected = FALSE], "error"),
                                  "rejected"))

\* The polling interval fires, lines 205-207
OnPollInterval ==
  /\ adapter.steps < MaxSteps
  /\ adapter.pollingInterval /\ adapter.polls # 1..MaxPolls
  /\ Adopt(Poll(Turn(adapter, "interval", 0, "none", TRUE)))

\* A poll request is answered: poll, lines 246-276
OnPollAnswer ==
  \E id \in adapter.polls, answer \in {"messages", "empty", "404", "500"} :
    /\ adapter.steps < MaxSteps
    /\ LET a == [Turn(adapter, "pollAnswer", 0, answer, answer \in {"messages", "empty"})
                   EXCEPT !.polls = @ \ {id}, !.abortController = 0]
       IN Adopt(CASE answer = "messages" ->
                       [a EXCEPT !.out.msgs = Append(@, "message")]
                  [] answer = "empty" -> a
                  [] answer = "404" ->
                       IF a.connected THEN EmitError(a, "sessionNotFound") ELSE a
                  [] answer = "500" ->
                       IF a.connected THEN EmitError(a, "pollingFailed") ELSE a)

NextTr ==
  \/ CallConnect
  \/ CallDisconnect
  \/ CallSend
  \/ OnOpen
  \/ OnCloseEvent
  \/ OnConnectionTimeout
  \/ Elapse
  \/ OnFrame
  \/ OnErrorEvent
  \/ OnInitAnswer
  \/ OnPollInterval
  \/ OnPollAnswer
  \/ OnCloseAnswer

InitTr ==
  /\ Mounted(NoHist) /\ enableFallback /\ preferred = "websocket"
  /\ BackoffIdle /\ ConsoleIdle
  /\ \E kind \in TransportType : adapter = [NoAdapter EXCEPT !.kind = kind]

SpecTr == InitTr /\ [][NextTr]_vars

\* C21: a transport passes a message to the message callback only while the
\* status it reported last is 'open' and its disconnect() has not completed.
C21_MessagesWhileOpen ==
  adapter.out.msgs # <<>> => adapter.last = "open" /\ ~adapter.done

\* C22: once disconnect() has been called on a PollingTransport, and until
\* connect() is called again, it issues no poll request.
C22_NoPollAfterDisconnect ==
  adapter.kind = "polling" /\ adapter.out.polls > 0 => ~adapter.disc

\* C23: a poll answered 404 makes the PollingTransport report the 'Session
\* not found on server' error and disconnect: isConnected() is false and the
\* polling interval is stopped.
C23_NotFoundDisconnects ==
  adapter.out.call = "pollAnswer" /\ adapter.out.event = "404"
                                   /\ adapter.out.wasConnected =>
    /\ adapter.out.errors = <<"sessionNotFound">>
    /\ ~IsConnected(adapter)
    /\ ~adapter.pollingInterval

\* C24: send() called while isConnected() is false fails with a
\* not-connected error, sends nothing to the peer and leaves the fields of the
\* transport as they were.
C24_SendNeedsConnection ==
  adapter.out.call = "send" /\ ~adapter.out.wasConnected =>
    /\ adapter.out.threw \in {"notConnected", "noSession"}
    /\ adapter.out.requests = 0
    /\ adapter.out.unchanged

\* C25: connect() called while isConnected() is true fails with the
\* already-connected error, reports nothing, sends nothing, leaves the fields
\* of the transport as they were, and isConnected() is still true.
C25_ConnectWhileConnectedRefused ==
  adapter.out.call = "connect" /\ adapter.out.wasConnected =>
    /\ adapter.out.threw = "alreadyConnected"
    /\ adapter.out.status = <<>> /\ adapter.out.requests = 0
    /\ adapter.out.unchanged
    /\ IsConnected(adapter)

C25_Witness ==
  /\ adapter.out.call = "connect" /\ adapter.out.wasConnected
  /\ adapter.out.threw = "alreadyConnected"
  /\ adapter.kind = "polling" /\ adapter.polls # {}

C27_CloseCodeClassified ==
  adapter.out.call = "close" =>
    LET errors == IF adapter.out.ok THEN adapter.out.errors
                  ELSE Tail(adapter.out.errors)
    IN IF adapter.out.code \in {1000, 1001}
         THEN adapter.out.status = <<"closed">> /\ errors = <<>>
         ELSE /\ adapter.out.status = <<"error">>
              /\ errors = <<IF adapter.out.code \in {1008, 4001, 4003}
                              THEN "authenticationFailed"
                              ELSE "closedAbnormally">>

C27_Witness ==
  /\ adapter.out.call = "close" /\ adapter.out.code = 1001
  /\ adapter.out.status = <<"closed">> /\ adapter.out.errors = <<>>

\* C28: a frame that reaches the WebSocket or EventSource transport raises
\* nothing, changes no status and makes one call of the message callback; for
\* a frame that is not well-formed JSON the message is the PARSE_ERROR one.
C28_OneMessagePerFrame ==
  adapter.out.call = "frame" =>
    /\ adapter.out.threw = "none" /\ adapter.out.status = <<>>
    /\ Len(adapter.out.msgs) = 1
    /\ ~adapter.out.ok /\ adapter.out.event # "binary" =>
         adapter.out.msgs = <<"PARSE_ERROR">>

\* C29: EventSourceTransport.send() sends its request only if the 'session'
\* event of the current connection delivered the session identifier and
\* disconnect() has not been called since; otherwise it fails with the 'No
\* active session' error and sends nothing.
C29_SendNeedsSessionOfConnection ==
  adapter.kind = "sse" /\ adapter.out.call = "send" =>
    IF adapter.sessionId # 0 /\ adapter.sessionId = adapter.gen /\ ~adapter.disc
      THEN adapter.out.threw # "noSession" /\ adapter.out.requests = 1
      ELSE adapter.out.threw = "noSession" /\ adapter.out.requests = 0

\* C30: an error event of the EventSource with the stream CONNECTING yields
\* status 'connecting' alone; with the stream CLOSED it yields status 'error'
\* and one error; once disconnect() has completed no event reports a status
\* or an error.
C30_EsErrorByReadyState ==
  adapter.kind = "sse" =>
    /\ adapter.out.call = "error" /\ adapter.out.event = "connecting" =>
         adapter.out.status = <<"connecting">> /\ adapter.out.errors = <<>>
    /\ adapter.out.call = "error" /\ adapter.out.event = "closed" =>
         /\ adapter.out.status = <<"error">>
         /\ adapter.out.errors = <<"closedUnexpectedly">>
    /\ adapter.done /\ adapter.out.call \notin {"connect", "disconnect", "send"} =>
         adapter.out.status = <<>> /\ adapter.out.errors = <<>>

C30_Witness ==
  /\ adapter.kind = "sse" /\ adapter.out.call = "error"
  /\ adapter.out.event = "connecting" /\ adapter.out.wasConnected
  /\ adapter.out.status = <<"connecting">>

(***************************************************************************)
(* Claims about the coordinator's error handling and transport choice      *)
(***************************************************************************)
\* C31: one transport failure is classified once and adds one error
\* message: no step runs handleTransportError more than once
C31_FailureHandledOnce == hist.ev.handled <= 1

\* C32: every connect() in flight that has created its transport created one
\* of the configured preferred type
C32_ConnectUsesPreferred ==
  \A c \in calls :
    c.fn = "connect" /\ c.pc = "connect" => transports[c.tr].type = preferred

(***************************************************************************)
(* Claims about the controller's state                                     *)
(***************************************************************************)
\* C33: the controller is never reconnecting and at max attempts at once,
\* and attempts never exceeds maxAttempts
C33_OneControllerState ==
  /\ ~(state.isReconnecting /\ state.maxAttemptsReached)
  /\ state.attempts <= maxAttempts

\* The attempts are used up: max-attempts-reached, after maxAttempts attempts
C33_Witness ==
  /\ state.maxAttemptsReached /\ ~state.isReconnecting
  /\ state.attempts = maxAttempts
  /\ hist.exhausted

\* C34: once every queued update has been rendered, a reconnect timer is
\* armed only while isReconnecting is true
C34_TimerOnlyWhileReconnecting ==
  queue = <<>> /\ timers # {} => state.isReconnecting

(***************************************************************************)
(* Claims about instances the coordinator has let go                       *)
(***************************************************************************)
\* C35: the reports of a transport instance that transportRef no longer
\* holds change no connection status, add no error message and start no
\* reconnection
C35_StaleInstanceIgnored == hist.ev.stale = <<>>

(***************************************************************************)
(* Claims about recovery                                                   *)
(***************************************************************************)
\* The connection transportRef holds was open and has just been lost, with
\* no disconnect() by the user and no authentication error
UnexpectedLoss ==
  /\ hist.ev.name \in {"wsDrop", "esFatal"}
  /\ transportRef # 0
  /\ transports[transportRef].wasOpen /\ transports[transportRef].chan = "closed"
  /\ ~isManualDisconnectRef /\ hist.authError = "none"

\* C36: with fallback enabled, after an unexpected loss of an open connection
\* the status becomes 'open' again or maxAttemptsReached is set
C36_LossRecovers ==
  UnexpectedLoss ~> (connectionState.status = "open" \/ state.maxAttemptsReached)

\* C37: when the EventSource transportRef holds had been open and closes
\* for good (error with readyState CLOSED), directly or after native
\* reconnection, and the guard conditions of handleStatusChange other than
\* the previous status hold, the step starts reconnection
C37_SseLossStartsReconnection ==
  /\ hist.ev.name = "esFatal"
  /\ transportRef # 0
  /\ transports[transportRef].type = "sse"
  /\ transports[transportRef].wasOpen /\ transports[transportRef].chan = "closed"
  /\ ~transports[transportRef].manual
  /\ sessionConfig # NoConfig /\ enableFallback /\ ~isManualDisconnectRef
  /\ timeSinceLastAttempt >= MIN_CONNECTION_INTERVAL_MS
  => hist.ev.start.status = "error"

(***************************************************************************)
(* Claims about connect() of the EventSource and polling adapters          *)
(***************************************************************************)
\* C38: when the session initialisation of a PollingTransport completes
\* after disconnect() was called, isConnected() is false, no 'open' is
\* reported and no poll loop runs
C38_DisconnectDuringInitHolds ==
  adapter.kind = "polling" /\ adapter.out.call = "initAnswer" /\ adapter.disc =>
    /\ ~IsConnected(adapter)
    /\ \A j \in 1..Len(adapter.out.status) : adapter.out.status[j] # "open"
    /\ ~adapter.pollingInterval
    /\ adapter.out.polls = 0

\* An adapter instance left to its peer: the events of the peer may or
\* may not come; time passes and the timeout connect() armed fires
SpecTrLive ==
  InitTr /\ [][NextTr]_vars /\ WF_vars(Elapse) /\ WF_vars(OnConnectionTimeout)

\* C39: every pending connect() of an EventSourceTransport or a
\* PollingTransport settles in the end, whatever the peer does
C39_ConnectSettles ==
  (adapter.kind \in {"sse", "polling"} /\ adapter.promise = "pending")
    ~> (adapter.promise # "pending")

(***************************************************************************)
(* Claims about connectionState.transport                                  *)
(***************************************************************************)
\* C40: once every queued update has been rendered, status 'open' comes with
\* connectionState.transport equal to the type of the instance transportRef
\* holds
C40_OpenTransportIsActive ==
  connectionState.status = "open" /\ queue = <<>> /\ transportRef # 0 =>
    connectionState.transport = transports[transportRef].type

====
